---- MODULE Spec2Model ----
(***************************************************************************)
(* Model of the maps crate: a bucketed hash table (src/hashmap.rs) whose   *)
(* slots hold a singly linked chain (src/linked_list.rs) or an ordered     *)
(* binary tree keyed by hash (src/avl_tree.rs).                            *)
(*                                                                         *)
(* Option<T> is a sequence of length 0 (None) or 1 (Some).  Box<T> is the  *)
(* boxed value itself.  A tuple (K, V) is the sequence <<k, v>>.           *)
(***************************************************************************)
EXTENDS Integers, Sequences, FiniteSets, TLC

\* ---------------------------------------------------------------- bounds
MaxKey == 1
MaxValue == 2
MaxHash == 2
MaxCapHint == 4
MaxIter == 3
MaxBucketKey == 2
MaxCollideKey == 8

Keys == 0..MaxKey
Values == 1..MaxValue
Hashes == 0..MaxHash
BucketKeys == 0..MaxBucketKey
CollideKeys == 0..MaxCollideKey

\* ------------------------------------------------------ program constants
\* LOAD_FACTOR = 0.75 as the exact fraction LOAD_FACTOR_NUM / LOAD_FACTOR_DEN
LOAD_FACTOR_NUM == 3
LOAD_FACTOR_DEN == 4
DEFAULT_CAPACITY == 16

\* ------------------------------------------------------------------ Option
None == <<>>
Some(x) == <<x>>

\* ------------------------------------------------- linked_list.rs (chain)
\* Node { key, value, next: Option<Box<Node>> }
ListNode(key, value, next) == [key |-> key, value |-> value, next |-> next]

\* LinkedList { head: Option<Box<Node>> }
LinkedList_new == [head |-> None]

LinkedList_is_empty(self) == self.head = None

RECURSIVE ListScan_get(_, _)
ListScan_get(curr_opt, key) ==
    IF curr_opt = None THEN None
    ELSE IF curr_opt[1].key = key THEN Some(<<curr_opt[1].key, curr_opt[1].value>>)
    ELSE ListScan_get(curr_opt[1].next, key)

LinkedList_get_key_value(self, key) == ListScan_get(self.head, key)

\* the while loop of LinkedList::insert: the chain with the value swapped
\* into the first node whose key matches, and the value swapped out
RECURSIVE ListScan_insert(_, _, _)
ListScan_insert(option, key, value) ==
    IF option = None THEN [chain |-> None, ret |-> None]
    ELSE IF option[1].key = key
    THEN [chain |-> Some([option[1] EXCEPT !.value = value]),
          ret |-> Some(option[1].value)]
    ELSE LET r == ListScan_insert(option[1].next, key, value)
         IN [chain |-> Some([option[1] EXCEPT !.next = r.chain]), ret |-> r.ret]

LinkedList_insert(self, key, value) ==
    LET r == ListScan_insert(self.head, key, value)
    IN IF r.ret # None
       THEN [list |-> [head |-> r.chain], ret |-> r.ret]
       ELSE [list |-> [head |-> Some(ListNode(key, value, self.head))],
             ret |-> None]

\* the loop of remove_entry without line 107: the nodes after the removed
\* one are dropped with it
RECURSIVE ListScan_remove_drop_rest(_, _)
ListScan_remove_drop_rest(prev, key) ==
    IF prev.next = None THEN [node |-> prev, ret |-> None]
    ELSE IF prev.next[1].key = key
    THEN [node |-> [prev EXCEPT !.next = None],
          ret |-> Some(<<prev.next[1].key, prev.next[1].value>>)]
    ELSE LET r == ListScan_remove_drop_rest(prev.next[1], key)
         IN [node |-> [prev EXCEPT !.next = Some(r.node)], ret |-> r.ret]

\* the while loop of LinkedList::remove_entry, walking from prev
RECURSIVE ListScan_remove(_, _)
ListScan_remove(prev, key) ==
    IF prev.next = None THEN [node |-> prev, ret |-> None]
    ELSE IF prev.next[1].key = key
    THEN [node |-> [prev EXCEPT !.next = prev.next[1].next],
          ret |-> Some(<<prev.next[1].key, prev.next[1].value>>)]
    ELSE LET r == ListScan_remove(prev.next[1], key)
         IN [node |-> [prev EXCEPT !.next = Some(r.node)], ret |-> r.ret]

LinkedList_remove_entry(self, key) ==
    IF self.head = None THEN [list |-> self, ret |-> None]
    ELSE IF self.head[1].key = key
    THEN [list |-> [head |-> self.head[1].next],
          ret |-> Some(<<self.head[1].key, self.head[1].value>>)]
    ELSE LET r == ListScan_remove(self.head[1], key)
         IN [list |-> [head |-> Some(r.node)], ret |-> r.ret]

\* IntoIter over a chain: the items in the order next() yields them
RECURSIVE ListIntoIter_items(_)
ListIntoIter_items(next) ==
    IF next = None THEN <<>>
    ELSE <<(<<next[1].key, next[1].value>>)>> \o ListIntoIter_items(next[1].next)

LinkedList_into_iter(self) == ListIntoIter_items(self.head)

\* ---------------------------------------------------- avl_tree.rs (tree)
\* Node { hash, key, value, left, right }
Node_new(hash, key, value) ==
    [hash |-> hash, key |-> key, value |-> value, left |-> None, right |-> None]

\* Node::insert without the mem::swap of line 31: the old value is returned
\* but the node keeps it
RECURSIVE Node_insert_noswap(_, _, _, _)
Node_insert_noswap(self, hash, key, value) ==
    IF self.hash = hash /\ self.key = key
    THEN [node |-> self, ret |-> Some(self.value)]
    ELSE IF hash < self.hash
    THEN IF self.left # None
         THEN LET r == Node_insert_noswap(self.left[1], hash, key, value)
              IN [node |-> [self EXCEPT !.left = Some(r.node)], ret |-> r.ret]
         ELSE [node |-> [self EXCEPT !.left = Some(Node_new(hash, key, value))],
               ret |-> None]
    ELSE IF self.right # None
         THEN LET r == Node_insert_noswap(self.right[1], hash, key, value)
              IN [node |-> [self EXCEPT !.right = Some(r.node)], ret |-> r.ret]
         ELSE [node |-> [self EXCEPT !.right = Some(Node_new(hash, key, value))],
               ret |-> None]

\* Node::insert without the test of line 29: a key already in the tree gets a
\* second node
RECURSIVE Node_insert_no_match(_, _, _, _)
Node_insert_no_match(self, hash, key, value) ==
    IF hash < self.hash
    THEN IF self.left # None
         THEN LET r == Node_insert_no_match(self.left[1], hash, key, value)
              IN [node |-> [self EXCEPT !.left = Some(r.node)], ret |-> r.ret]
         ELSE [node |-> [self EXCEPT !.left = Some(Node_new(hash, key, value))],
               ret |-> None]
    ELSE IF self.right # None
         THEN LET r == Node_insert_no_match(self.right[1], hash, key, value)
              IN [node |-> [self EXCEPT !.right = Some(r.node)], ret |-> r.ret]
         ELSE [node |-> [self EXCEPT !.right = Some(Node_new(hash, key, value))],
               ret |-> None]

\* Node::insert with hash <= self.hash at line 33: an equal hash goes left
RECURSIVE Node_insert_le(_, _, _, _)
Node_insert_le(self, hash, key, value) ==
    IF self.hash = hash /\ self.key = key
    THEN [node |-> [self EXCEPT !.value = value], ret |-> Some(self.value)]
    ELSE IF hash <= self.hash
    THEN IF self.left # None
         THEN LET r == Node_insert_le(self.left[1], hash, key, value)
              IN [node |-> [self EXCEPT !.left = Some(r.node)], ret |-> r.ret]
         ELSE [node |-> [self EXCEPT !.left = Some(Node_new(hash, key, value))],
               ret |-> None]
    ELSE IF self.right # None
         THEN LET r == Node_insert_le(self.right[1], hash, key, value)
              IN [node |-> [self EXCEPT !.right = Some(r.node)], ret |-> r.ret]
         ELSE [node |-> [self EXCEPT !.right = Some(Node_new(hash, key, value))],
               ret |-> None]

RECURSIVE Node_insert(_, _, _, _)
Node_insert(self, hash, key, value) ==
    IF self.hash = hash /\ self.key = key
    THEN [node |-> [self EXCEPT !.value = value], ret |-> Some(self.value)]
    ELSE IF hash < self.hash
    THEN IF self.left # None
         THEN LET r == Node_insert(self.left[1], hash, key, value)
              IN [node |-> [self EXCEPT !.left = Some(r.node)], ret |-> r.ret]
         ELSE [node |-> [self EXCEPT !.left = Some(Node_new(hash, key, value))],
               ret |-> None]
    ELSE IF self.right # None
         THEN LET r == Node_insert(self.right[1], hash, key, value)
              IN [node |-> [self EXCEPT !.right = Some(r.node)], ret |-> r.ret]
         ELSE [node |-> [self EXCEPT !.right = Some(Node_new(hash, key, value))],
               ret |-> None]

\* Node::get_key_value with hash <= self.hash at line 59: the lookup of an
\* equal hash goes left, where insert went right
RECURSIVE Node_get_key_value_le(_, _, _)
Node_get_key_value_le(self, hash, key) ==
    IF self.hash = hash /\ self.key = key
    THEN Some(<<self.key, self.value>>)
    ELSE IF hash <= self.hash
    THEN IF self.left # None
         THEN Node_get_key_value_le(self.left[1], hash, key)
         ELSE None
    ELSE IF self.right # None
         THEN Node_get_key_value_le(self.right[1], hash, key)
         ELSE None

RECURSIVE Node_get_key_value(_, _, _)
Node_get_key_value(self, hash, key) ==
    IF self.hash = hash /\ self.key = key
    THEN Some(<<self.key, self.value>>)
    ELSE IF hash < self.hash
    THEN IF self.left # None
         THEN Node_get_key_value(self.left[1], hash, key)
         ELSE None
    ELSE IF self.right # None
         THEN Node_get_key_value(self.right[1], hash, key)
         ELSE None

\* Node::remove_entry: the body is commented out, only the stub remains
Node_remove_entry(self, hash, key) ==
    [node |-> self, ret |-> None, remove_self |-> FALSE]

\* AvlTree { root: Option<Node> }
AvlTree_new == [root |-> None]

AvlTree_is_empty(self) == self.root = None

\* AvlTree::insert dropping the result of root.insert
AvlTree_insert_ret_none(self, hash, key, value) ==
    IF self.root # None
    THEN LET r == Node_insert(self.root[1], hash, key, value)
         IN [tree |-> [root |-> Some(r.node)], ret |-> None]
    ELSE [tree |-> [root |-> Some(Node_new(hash, key, value))], ret |-> None]

AvlTree_insert(self, hash, key, value) ==
    IF self.root # None
    THEN LET r == Node_insert(self.root[1], hash, key, value)
         IN [tree |-> [root |-> Some(r.node)], ret |-> r.ret]
    ELSE [tree |-> [root |-> Some(Node_new(hash, key, value))], ret |-> None]

AvlTree_get_key_value(self, hash, key) ==
    IF self.root # None
    THEN Node_get_key_value(self.root[1], hash, key)
    ELSE None

AvlTree_remove_entry(self, hash, key) ==
    IF self.root # None
    THEN LET r == Node_remove_entry(self.root[1], hash, key)
         IN IF r.remove_self
            THEN [tree |-> [root |-> None], ret |-> r.ret]
            ELSE [tree |-> [root |-> Some(r.node)], ret |-> r.ret]
    ELSE [tree |-> self, ret |-> None]

\* add_left without the loop: only the first node is pushed, the left
\* children below it are dropped
add_left_once(to, from) ==
    IF from # None
    THEN Append(to, [from[1] EXCEPT !.left = None])
    ELSE to

\* add_left: push the node and its chain of left children, each with its
\* left child taken
RECURSIVE add_left(_, _)
add_left(to, from) ==
    IF from # None
    THEN add_left(Append(to, [from[1] EXCEPT !.left = None]), from[1].left)
    ELSE to

\* IntoIter::new: the lineage stack
IntoIter_new(tree) ==
    IF tree.root # None
    THEN add_left(<<[tree.root[1] EXCEPT !.left = None]>>, tree.root[1].left)
    ELSE <<>>

\* IntoIter::next without the add_left of line 265: the right subtree of the
\* popped node is dropped
IntoIter_next_skip_right(lineage) ==
    IF lineage # <<>>
    THEN LET next == lineage[Len(lineage)]
         IN [lineage |-> SubSeq(lineage, 1, Len(lineage) - 1),
             item |-> Some(<<next.key, next.value>>)]
    ELSE [lineage |-> lineage, item |-> None]

\* IntoIter::next: pop the top of the stack, push the left spine of its right
IntoIter_next(lineage) ==
    IF lineage # <<>>
    THEN LET next == lineage[Len(lineage)]
         IN [lineage |-> add_left(SubSeq(lineage, 1, Len(lineage) - 1), next.right),
             item |-> Some(<<next.key, next.value>>)]
    ELSE [lineage |-> lineage, item |-> None]

\* the items a for loop over the iterator sees, until next() returns None
RECURSIVE IntoIter_items(_)
IntoIter_items(lineage) ==
    LET r == IntoIter_next(lineage)
    IN IF r.item = None THEN <<>>
       ELSE <<r.item[1]>> \o IntoIter_items(r.lineage)

AvlTree_into_iter(self) == IntoIter_items(IntoIter_new(self))

\* ------------------------------------------------------------ hashmap.rs
\* enum Entry { ListEntry(LinkedList), TreeEntry(AvlTree), Empty }
Entry_Empty == [kind |-> "Empty", list |-> LinkedList_new, tree |-> AvlTree_new]

Entry_ListEntry(list) == [kind |-> "ListEntry", list |-> list, tree |-> AvlTree_new]

Entry_TreeEntry(tree) == [kind |-> "TreeEntry", list |-> LinkedList_new, tree |-> tree]

\* the hash builder is opaque: any function from keys to 64-bit hashes,
\* fixed for the lifetime of the table.  The code only tests keys for
\* equality, so renaming the keys maps behaviours to behaviours: every hash
\* function is a renaming of a non-decreasing one, and those are enumerated
HashBuilders == {h \in [Keys -> Hashes] : \A j, k \in Keys : j < k => h[j] <= h[k]}

\* with_capacity_and_hasher taking the hint as the capacity, without rounding
capacity_loop_exact(capacity, cap) == IF capacity < cap THEN cap ELSE capacity

\* the while loop of with_capacity_and_hasher
RECURSIVE capacity_loop(_, _)
capacity_loop(capacity, cap) ==
    IF capacity < cap THEN capacity_loop(capacity * 2, cap) ELSE capacity

\* for _ in 0..capacity { v.push(Default::default()); }
RECURSIVE empty_table(_)
empty_table(capacity) ==
    IF capacity = 0 THEN <<>>
    ELSE Append(empty_table(capacity - 1), Entry_Empty)

\* struct HashMap { table, hash_builder, len }
with_capacity_and_hasher(cap, hash_builder) ==
    [table |-> empty_table(capacity_loop(1, cap)),
     hash_builder |-> hash_builder,
     len |-> 0]

HashMap_new(hash_builder) == with_capacity_and_hasher(DEFAULT_CAPACITY, hash_builder)

HashMap_len(self) == self.len

HashMap_hash(self, key) == self.hash_builder[key]

\* bitwise and of two naturals
RECURSIVE BitAnd(_, _)
BitAnd(a, b) ==
    IF a = 0 \/ b = 0 THEN 0
    ELSE (a % 2) * (b % 2) + 2 * BitAnd(a \div 2, b \div 2)

\* hash as usize & (self.table.len() - 1); slots are numbered from 0
hash_index(self, hash) == BitAnd(hash, Len(self.table) - 1)

\* self.table[index], the table being a sequence indexed from 1
Slot(self, index) == self.table[index + 1]

SetSlot(self, index, entry) == [self EXCEPT !.table[index + 1] = entry]

\* insert_into_table starting a chain in an Empty slot, with no promotion
insert_into_table_chained(self, key, value) ==
    LET hash == HashMap_hash(self, key)
        index == hash_index(self, hash)
        entry == Slot(self, index)
    IN CASE entry.kind = "ListEntry" ->
              LET r == LinkedList_insert(entry.list, key, value)
              IN [map |-> SetSlot(self, index, Entry_ListEntry(r.list)), ret |-> r.ret]
         [] entry.kind = "TreeEntry" ->
              LET r == AvlTree_insert(entry.tree, hash, key, value)
              IN [map |-> SetSlot(self, index, Entry_TreeEntry(r.tree)), ret |-> r.ret]
         [] entry.kind = "Empty" ->
              LET r == LinkedList_insert(LinkedList_new, key, value)
              IN [map |-> SetSlot(self, index, Entry_ListEntry(r.list)), ret |-> None]

\* insert_into_table without the entry.insert of line 243: the new tree is
\* stored empty
insert_into_table_no_first(self, key, value) ==
    LET hash == HashMap_hash(self, key)
        index == hash_index(self, hash)
        entry == Slot(self, index)
    IN CASE entry.kind = "ListEntry" ->
              LET r == LinkedList_insert(entry.list, key, value)
              IN [map |-> SetSlot(self, index, Entry_ListEntry(r.list)), ret |-> r.ret]
         [] entry.kind = "TreeEntry" ->
              LET r == AvlTree_insert(entry.tree, hash, key, value)
              IN [map |-> SetSlot(self, index, Entry_TreeEntry(r.tree)), ret |-> r.ret]
         [] entry.kind = "Empty" ->
              [map |-> SetSlot(self, index, Entry_TreeEntry(AvlTree_new)), ret |-> None]

insert_into_table(self, key, value) ==
    LET hash == HashMap_hash(self, key)
        index == hash_index(self, hash)
        entry == Slot(self, index)
    IN CASE entry.kind = "ListEntry" ->
              LET r == LinkedList_insert(entry.list, key, value)
              IN [map |-> SetSlot(self, index, Entry_ListEntry(r.list)), ret |-> r.ret]
         [] entry.kind = "TreeEntry" ->
              LET r == AvlTree_insert(entry.tree, hash, key, value)
              IN [map |-> SetSlot(self, index, Entry_TreeEntry(r.tree)), ret |-> r.ret]
         [] entry.kind = "Empty" ->
              LET r == AvlTree_insert(AvlTree_new, hash, key, value)
              IN [map |-> SetSlot(self, index, Entry_TreeEntry(r.tree)), ret |-> None]

\* the by-value iteration over one slot of the old table
Entry_into_iter(entry) ==
    CASE entry.kind = "ListEntry" -> LinkedList_into_iter(entry.list)
      [] entry.kind = "TreeEntry" -> AvlTree_into_iter(entry.tree)
      [] entry.kind = "Empty" -> <<>>

\* the reinsertion counting each entry again, as the public insert does
RECURSIVE reinsert_items_counted(_, _)
reinsert_items_counted(self, items) ==
    IF items = <<>> THEN self
    ELSE reinsert_items_counted(
             [insert_into_table(self, items[1][1], items[1][2]).map
                 EXCEPT !.len = @ + 1],
             Tail(items))

\* for (k, v) in bucket { self.insert_into_table(k, v); }
RECURSIVE reinsert_items(_, _)
reinsert_items(self, items) ==
    IF items = <<>> THEN self
    ELSE reinsert_items(insert_into_table(self, items[1][1], items[1][2]).map,
                        Tail(items))

\* for entry in Vec::from(old_table) { ... }
RECURSIVE reinsert_entries(_, _)
reinsert_entries(self, old_table) ==
    IF old_table = <<>> THEN self
    ELSE reinsert_entries(reinsert_items(self, Entry_into_iter(old_table[1])),
                          Tail(old_table))

\* resize without the shift of line 203: the new table is as large as the old
resize_new_cap_same(self) == Len(self.table)

resize_new_cap(self) == Len(self.table) * 2

\* resize growing the table in place: the entries stay in their old slots
resize_in_place(self) ==
    [self EXCEPT !.table = self.table \o empty_table(Len(self.table))]

resize(self) ==
    LET new_cap == resize_new_cap(self)
        swapped == [self EXCEPT !.table = empty_table(new_cap)]
    IN reinsert_entries(swapped, self.table)

\* insert without the ret.is_none() test of line 102
insert_counted_always(self, key, value) ==
    LET r == insert_into_table(self, key, value)
    IN [map |-> [r.map EXCEPT !.len = @ + 1], ret |-> r.ret]

\* lines 101-104 of insert: insert_into_table, then len += 1 on a new key
insert_counted(self, key, value) ==
    LET r == insert_into_table(self, key, value)
    IN [map |-> [r.map EXCEPT !.len = IF r.ret = None THEN @ + 1 ELSE @],
        ret |-> r.ret]

\* (LOAD_FACTOR * self.table.len() as f64) as usize: the cast truncates
load_threshold(self) == (LOAD_FACTOR_NUM * Len(self.table)) \div LOAD_FACTOR_DEN

\* line 106 of insert
needs_resize(self) == HashMap_len(self) >= load_threshold(self)

HashMap_insert(self, key, value) ==
    LET c == insert_counted(self, key, value)
    IN [map |-> IF needs_resize(c.map) THEN resize(c.map) ELSE c.map,
        ret |-> c.ret]

HashMap_get_key_value(self, key) ==
    LET hash == HashMap_hash(self, key)
        index == hash_index(self, hash)
        entry == Slot(self, index)
    IN CASE entry.kind = "ListEntry" -> LinkedList_get_key_value(entry.list, key)
         [] entry.kind = "TreeEntry" -> AvlTree_get_key_value(entry.tree, hash, key)
         [] entry.kind = "Empty" -> None

\* .map(|(_k, v)| v)
map_value(opt) == IF opt = None THEN None ELSE Some(opt[1][2])

HashMap_get(self, key) == map_value(HashMap_get_key_value(self, key))

HashMap_contains_key(self, key) == HashMap_get_key_value(self, key) # None

\* remove_entry without the res.is_some() tests of lines 178 and 189
HashMap_remove_entry_uncond(self, key) ==
    LET hash == HashMap_hash(self, key)
        index == hash_index(self, hash)
        entry == Slot(self, index)
    IN CASE entry.kind = "ListEntry" ->
              LET r == LinkedList_remove_entry(entry.list, key)
                  counted == [self EXCEPT !.len = @ - 1]
              IN [map |-> IF LinkedList_is_empty(r.list)
                          THEN SetSlot(counted, index, Entry_Empty)
                          ELSE SetSlot(counted, index, Entry_ListEntry(r.list)),
                  ret |-> r.ret]
         [] entry.kind = "TreeEntry" ->
              LET r == AvlTree_remove_entry(entry.tree, hash, key)
                  counted == [self EXCEPT !.len = @ - 1]
              IN [map |-> IF AvlTree_is_empty(r.tree)
                          THEN SetSlot(counted, index, Entry_Empty)
                          ELSE SetSlot(counted, index, Entry_TreeEntry(r.tree)),
                  ret |-> r.ret]
         [] entry.kind = "Empty" -> [map |-> self, ret |-> None]

HashMap_remove_entry(self, key) ==
    LET hash == HashMap_hash(self, key)
        index == hash_index(self, hash)
        entry == Slot(self, index)
    IN CASE entry.kind = "ListEntry" ->
              LET r == LinkedList_remove_entry(entry.list, key)
                  counted == [self EXCEPT !.len = IF r.ret # None THEN @ - 1 ELSE @]
              IN [map |-> IF LinkedList_is_empty(r.list)
                          THEN SetSlot(counted, index, Entry_Empty)
                          ELSE SetSlot(counted, index, Entry_ListEntry(r.list)),
                  ret |-> r.ret]
         [] entry.kind = "TreeEntry" ->
              LET r == AvlTree_remove_entry(entry.tree, hash, key)
                  counted == [self EXCEPT !.len = IF r.ret # None THEN @ - 1 ELSE @]
              IN [map |-> IF AvlTree_is_empty(r.tree)
                          THEN SetSlot(counted, index, Entry_Empty)
                          ELSE SetSlot(counted, index, Entry_TreeEntry(r.tree)),
                  ret |-> r.ret]
         [] entry.kind = "Empty" -> [map |-> self, ret |-> None]

HashMap_remove(self, key) ==
    LET r == HashMap_remove_entry(self, key)
    IN [map |-> r.map, ret |-> map_value(r.ret)]

\* from_iter keeping the first value of a key: a pair whose key the map
\* already holds is skipped
RECURSIVE from_iter_loop_first_wins(_, _)
from_iter_loop_first_wins(self, iter) ==
    IF iter = <<>> THEN self
    ELSE from_iter_loop_first_wins(
             IF HashMap_contains_key(self, iter[1][1]) THEN self
             ELSE HashMap_insert(self, iter[1][1], iter[1][2]).map,
             Tail(iter))

\* for (k, v) in iter { map.insert(k, v); }
RECURSIVE from_iter_loop(_, _)
from_iter_loop(self, iter) ==
    IF iter = <<>> THEN self
    ELSE from_iter_loop(HashMap_insert(self, iter[1][1], iter[1][2]).map, Tail(iter))

from_iter(iter, hash_builder) == from_iter_loop(HashMap_new(hash_builder), iter)

\* ------------------------------------------------------------------ state
\* map          the HashMap value the program holds
\* last         the last call made on it: its arguments, its result, the map
\*              before the call (pre) and, for insert, the map after lines
\*              101-104 (mid) and whether line 107 ran (resized)
\* inserted     the keys passed to insert since construction
\* insert_only  no remove or remove_entry was called since construction
\* tree         an AvlTree used on its own, as the map uses the tree of a slot
\* list         a LinkedList used on its own
\* hasher       the hash passed to the tree with each key
\* tree_recent  for each key, the value of the most recent insert into tree
\* bucket_last  the last call made on tree or list: its arguments, its
\*              result, the bucket before the call (pre) and, for into_iter,
\*              the items the iterator yielded
VARIABLES map, last, inserted, insert_only,
          tree, list, hasher, tree_recent, bucket_last

mapVars == <<map, last, inserted, insert_only>>

bucketVars == <<tree, list, hasher, tree_recent, bucket_last>>

vars == <<map, last, inserted, insert_only,
          tree, list, hasher, tree_recent, bucket_last>>

CapHints == (0..MaxCapHint) \cup {DEFAULT_CAPACITY}

\* the (key, value) sequences handed to from_iter
RECURSIVE SeqsUpTo(_, _)
SeqsUpTo(S, n) ==
    IF n = 0 THEN {<<>>}
    ELSE LET shorter == SeqsUpTo(S, n - 1)
         IN shorter \cup {Append(s, x) : s \in {t \in shorter : Len(t) = n - 1}, x \in S}

IterSeqs == SeqsUpTo(Keys \X Values, MaxIter)

Call(op, key, value, ret, pre, mid, resized, hint, iter) ==
    [op |-> op, key |-> key, value |-> value, ret |-> ret, pre |-> pre,
     mid |-> mid, resized |-> resized, hint |-> hint, iter |-> iter]

BucketCall(op, key, value, ret, pre, items) ==
    [op |-> op, key |-> key, value |-> value, ret |-> ret, pre |-> pre,
     items |-> items]

\* AvlTree::new() and LinkedList::new(), the keys hashed by hash_fn
BucketInit(hash_fn) ==
    /\ tree = AvlTree_new
    /\ list = LinkedList_new
    /\ hasher = hash_fn
    /\ tree_recent = [k \in BucketKeys |-> None]
    /\ bucket_last = BucketCall("new", 0, 0, None, AvlTree_new, <<>>)

Init ==
    /\ \E cap \in CapHints, hash_builder \in HashBuilders :
        LET m == with_capacity_and_hasher(cap, hash_builder)
        IN /\ map = m
           /\ last = Call("new", 0, 0, None, m, m, FALSE, cap, <<>>)
           /\ inserted = {}
           /\ insert_only = TRUE
    /\ BucketInit([k \in BucketKeys |-> 0])

InsertCall(key, value) ==
    LET c == insert_counted(map, key, value)
        r == HashMap_insert(map, key, value)
    IN /\ map' = r.map
       /\ last' = Call("insert", key, value, r.ret, map, c.map,
                       needs_resize(c.map), 0, <<>>)
       /\ inserted' = inserted \cup {key}
       /\ UNCHANGED insert_only
       /\ UNCHANGED bucketVars

Insert ==
    \E key \in Keys, value \in Values : InsertCall(key, value)

Remove ==
    \E key \in Keys :
        LET r == HashMap_remove(map, key)
        IN /\ map' = r.map
           /\ last' = Call("remove", key, 0, r.ret, map, map, FALSE, 0, <<>>)
           /\ insert_only' = FALSE
           /\ UNCHANGED inserted
           /\ UNCHANGED bucketVars

RemoveEntry ==
    \E key \in Keys :
        LET r == HashMap_remove_entry(map, key)
        IN /\ map' = r.map
           /\ last' = Call("remove_entry", key, 0, r.ret, map, map, FALSE, 0, <<>>)
           /\ insert_only' = FALSE
           /\ UNCHANGED inserted
           /\ UNCHANGED bucketVars

\* from_iter: line 254 builds HashMap::new(), the state Init gives for the
\* hint DEFAULT_CAPACITY, and the loop of lines 256-258 fills it
FromIter ==
    /\ last.op = "new"
    /\ last.hint = DEFAULT_CAPACITY
    /\ \E iter \in IterSeqs :
        LET m == from_iter(iter, map.hash_builder)
        IN /\ map' = m
           /\ last' = Call("from_iter", 0, 0, None, map, m, FALSE, 0, iter)
           /\ inserted' = {iter[i][1] : i \in 1..Len(iter)}
           /\ insert_only' = TRUE
           /\ UNCHANGED bucketVars

\* the calls on a constructed map
Next == Insert \/ Remove \/ RemoveEntry

Spec == Init /\ [][Next]_vars

\* the construction of a map from an iterator
NextFromIter == FromIter

SpecFromIter == Init /\ [][NextFromIter]_vars

\* ------------------------------------------- many keys in one slot
\* hash builders that send every key of CollideKeys to the slot 0 of a table
\* of up to DEFAULT_CAPACITY slots: all hashes equal, or alternating between
\* two hashes with the same low bits
CollideHashers ==
    {[k \in CollideKeys |-> 0],
     [k \in CollideKeys |-> (k % 2) * DEFAULT_CAPACITY]}

InitCollide ==
    /\ \E cap \in {0, DEFAULT_CAPACITY}, hash_builder \in CollideHashers :
        LET m == with_capacity_and_hasher(cap, hash_builder)
        IN /\ map = m
           /\ last = Call("new", 0, 0, None, m, m, FALSE, cap, <<>>)
           /\ inserted = {}
           /\ insert_only = TRUE
    /\ BucketInit([k \in BucketKeys |-> 0])

\* insert of a key not yet in the map; the code only tests keys for
\* equality, so the new keys are taken in the order 0, 1, 2, ...
InsertFresh ==
    /\ Cardinality(inserted) \in CollideKeys
    /\ \E value \in Values : InsertCall(Cardinality(inserted), value)

NextCollide == InsertFresh

SpecCollide == InitCollide /\ [][NextCollide]_vars

\* ------------------------------------------------ the buckets on their own
\* the tree compares hashes only by < and =, and keys only by equality, so
\* every assignment of hashes to keys is, up to renaming the keys and an
\* order-preserving renaming of the hashes, one that starts at 0 and steps
\* by 0 or 1 from a key to the next
BucketHashers ==
    {h \in [BucketKeys -> BucketKeys] :
        /\ h[0] = 0
        /\ \A k \in BucketKeys \ {0} : h[k] \in {h[k - 1], h[k - 1] + 1}}

\* the map is not used while a bucket is used on its own
MapIdle ==
    LET m == with_capacity_and_hasher(0, [k \in Keys |-> 0])
    IN /\ map = m
       /\ last = Call("new", 0, 0, None, m, m, FALSE, 0, <<>>)
       /\ inserted = {}
       /\ insert_only = TRUE

InitTree ==
    /\ \E hash_fn \in BucketHashers : BucketInit(hash_fn)
    /\ MapIdle

\* the chain takes no hash
InitList ==
    /\ BucketInit([k \in BucketKeys |-> 0])
    /\ MapIdle

TreeInsert ==
    \E key \in BucketKeys, value \in Values :
        LET r == AvlTree_insert(tree, hasher[key], key, value)
        IN /\ tree' = r.tree
           /\ tree_recent' = [tree_recent EXCEPT ![key] = Some(value)]
           /\ bucket_last' = BucketCall("insert", key, value, r.ret, tree, <<>>)
           /\ UNCHANGED <<list, hasher>>
           /\ UNCHANGED mapVars

TreeRemoveEntry ==
    \E key \in BucketKeys :
        LET r == AvlTree_remove_entry(tree, hasher[key], key)
        IN /\ tree' = r.tree
           /\ bucket_last' = BucketCall("remove_entry", key, 0, r.ret, tree, <<>>)
           /\ UNCHANGED <<list, hasher, tree_recent>>
           /\ UNCHANGED mapVars

\* into_iter consumes the tree: the program goes on with a new one
TreeIntoIter ==
    /\ tree' = AvlTree_new
    /\ tree_recent' = [k \in BucketKeys |-> None]
    /\ bucket_last' = BucketCall("into_iter", 0, 0, None, tree, AvlTree_into_iter(tree))
    /\ UNCHANGED <<list, hasher>>
    /\ UNCHANGED mapVars

NextTree == TreeInsert \/ TreeRemoveEntry \/ TreeIntoIter

SpecTree == InitTree /\ [][NextTree]_vars

ListInsert ==
    \E key \in BucketKeys, value \in Values :
        LET r == LinkedList_insert(list, key, value)
        IN /\ list' = r.list
           /\ bucket_last' = BucketCall("insert", key, value, r.ret, list, <<>>)
           /\ UNCHANGED <<tree, hasher, tree_recent>>
           /\ UNCHANGED mapVars

ListRemoveEntry ==
    \E key \in BucketKeys :
        LET r == LinkedList_remove_entry(list, key)
        IN /\ list' = r.list
           /\ bucket_last' = BucketCall("remove_entry", key, 0, r.ret, list, <<>>)
           /\ UNCHANGED <<tree, hasher, tree_recent>>
           /\ UNCHANGED mapVars

NextList == ListInsert \/ ListRemoveEntry

SpecList == InitList /\ [][NextList]_vars

TypeOK ==
    /\ map.len \in Nat
    /\ Len(map.table) >= 1
    /\ \A i \in 1..Len(map.table) : map.table[i].kind \in {"Empty", "ListEntry", "TreeEntry"}

\* ------------------------------------------------- what a table stores
\* the (key, value) pairs below a tree link, listed by walking the links
\* (not by the iterator)
RECURSIVE TreePairs(_)
TreePairs(link) ==
    IF link = None THEN <<>>
    ELSE TreePairs(link[1].left) \o <<(<<link[1].key, link[1].value>>)>>
         \o TreePairs(link[1].right)

RECURSIVE ChainPairs(_)
ChainPairs(link) ==
    IF link = None THEN <<>>
    ELSE <<(<<link[1].key, link[1].value>>)>> \o ChainPairs(link[1].next)

EntryPairs(entry) ==
    CASE entry.kind = "ListEntry" -> ChainPairs(entry.list.head)
      [] entry.kind = "TreeEntry" -> TreePairs(entry.tree.root)
      [] entry.kind = "Empty" -> <<>>

RECURSIVE TablePairs(_)
TablePairs(table) ==
    IF table = <<>> THEN <<>>
    ELSE EntryPairs(table[1]) \o TablePairs(Tail(table))

StoredPairs(self) == TablePairs(self.table)

StoredKeys(self) == {StoredPairs(self)[i][1] : i \in 1..Len(StoredPairs(self))}

StoredCount(self) == Len(StoredPairs(self))

\* how many times the sequence pairs lists the pair p
Occurrences(pairs, p) == Cardinality({i \in 1..Len(pairs) : pairs[i] = p})

\* two listings hold the same pairs the same number of times
SameMultiset(a, b) ==
    /\ Len(a) = Len(b)
    /\ \A p \in Keys \X Values : Occurrences(a, p) = Occurrences(b, p)

Capacity(self) == Len(self.table)

IsPowerOfTwo(n) == \E e \in 0..n : 2 ^ e = n

\* the slot a call on key probes in the map self
ProbedSlot(self, key) == Slot(self, hash_index(self, HashMap_hash(self, key)))

\* the value of the last pair of iter whose key is key
LastValue(iter, key) ==
    LET at == {i \in 1..Len(iter) : iter[i][1] = key}
    IN IF at = {} THEN None
       ELSE Some(iter[CHOOSE i \in at : \A j \in at : j <= i][2])

\* ------------------------------------------------------------------ claims

\* C1: insert(k, v) followed immediately by get(k) returns v; insert returns
\* the value k had before the call, Some(v0) when k was present with v0 and
\* None when k was not present.
C1_InsertThenGet ==
    last.op = "insert" =>
        /\ HashMap_get(map, last.key) = Some(last.value)
        /\ last.ret = HashMap_get(last.pre, last.key)

\* an insert replaced a different value of a key, in a table holding
\* another key too
C1_Witness ==
    /\ last.op = "insert"
    /\ last.ret # None
    /\ last.ret[1] # last.value
    /\ map.len >= 2

\* C2: remove(k) of a key present with value v returns Some(v), get(k) is
\* None afterwards and len() is one less than before.
C2_RemovePresent ==
    (last.op = "remove" /\ HashMap_get(last.pre, last.key) # None) =>
        /\ last.ret = HashMap_get(last.pre, last.key)
        /\ HashMap_get(map, last.key) = None
        /\ map.len = last.pre.len - 1

\* C3: after a sequence of inserts on a freshly constructed table, len()
\* is the number of distinct keys inserted.
C3_LenIsDistinctKeys ==
    insert_only => map.len = Cardinality(inserted)

\* a key was inserted again, after another key
C3_Witness ==
    /\ insert_only
    /\ last.op = "insert"
    /\ last.ret # None
    /\ Cardinality(inserted) >= 2

\* C4: remove(k) of a key that is not present returns None and changes
\* neither len(), nor the capacity, nor the result of get for any key.
C4_RemoveAbsent ==
    (last.op = "remove" /\ HashMap_get(last.pre, last.key) = None) =>
        /\ last.ret = None
        /\ map.len = last.pre.len
        /\ Capacity(map) = Capacity(last.pre)
        /\ \A k \in Keys : HashMap_get(map, k) = HashMap_get(last.pre, k)

\* an absent key was removed whose slot holds another key
C4_Witness ==
    /\ last.op = "remove"
    /\ HashMap_get(last.pre, last.key) = None
    /\ ProbedSlot(last.pre, last.key).kind # "Empty"

\* C5: resize keeps the stored (key, value) pairs, with their multiplicity,
\* keeps len(), and keeps the result of get for every key.
C5_ResizePreserves ==
    (last.op = "insert" /\ last.resized) =>
        /\ SameMultiset(StoredPairs(map), StoredPairs(last.mid))
        /\ map.len = last.mid.len
        /\ \A k \in Keys : HashMap_get(map, k) = HashMap_get(last.mid, k)

\* a resize of a table one of whose trees has a child
C5_Witness ==
    /\ last.op = "insert"
    /\ last.resized
    /\ last.mid.len >= 2
    /\ \E i \in 1..Capacity(last.mid) :
        LET root == last.mid.table[i].tree.root
        IN root # None /\ (root[1].left # None \/ root[1].right # None)

\* C6: a table built by from_iter holds exactly the distinct keys of the
\* sequence, and get returns for each key the value of the last pair with
\* that key.
C6_FromIterLastWins ==
    last.op = "from_iter" =>
        /\ StoredKeys(map) = {last.iter[i][1] : i \in 1..Len(last.iter)}
        /\ StoredCount(map) = Cardinality(StoredKeys(map))
        /\ \A k \in Keys : HashMap_get(map, k) = LastValue(last.iter, k)

\* the sequence has a key twice, with different values
C6_Witness ==
    /\ last.op = "from_iter"
    /\ \E i, j \in 1..Len(last.iter) :
        i < j /\ last.iter[i][1] = last.iter[j][1] /\ last.iter[i][2] # last.iter[j][2]

\* C7: the capacity is a power of two >= 1 in every reachable state;
\* with_capacity_and_hasher(cap) gives the smallest power of two >= cap (1
\* for 0), every slot Empty and len 0.
C7_CapacityPowerOfTwo ==
    /\ Capacity(map) >= 1
    /\ IsPowerOfTwo(Capacity(map))
    /\ last.op = "new" =>
        /\ Capacity(map) >= last.hint
        /\ \A p \in 1..(Capacity(map) - 1) : IsPowerOfTwo(p) => p < last.hint
        /\ \A i \in 1..Capacity(map) : map.table[i] = Entry_Empty
        /\ map.len = 0

\* a table constructed with a hint that is not a power of two
C7_Witness ==
    /\ last.op = "new"
    /\ last.hint = 3
    /\ Capacity(map) = 4

\* C8: len equals the number of entries held by the buckets of all slots.
C8_LenIsStoredCount ==
    map.len = StoredCount(map)

\* an insert that resized, after a remove was called, two entries stored
C8_Witness ==
    /\ ~insert_only
    /\ last.op = "insert"
    /\ last.resized
    /\ map.len >= 2

\* C9: insert resizes exactly when, after the insertion, count >= 0.75 *
\* capacity over the reals; then the capacity doubles, else it is unchanged.
C9_ResizeAtLoadFactor ==
    last.op = "insert" =>
        /\ last.resized <=>
            (LOAD_FACTOR_DEN * last.mid.len >= LOAD_FACTOR_NUM * Capacity(last.mid))
        /\ last.resized => Capacity(map) = 2 * Capacity(last.pre)
        /\ ~last.resized => Capacity(map) = Capacity(last.pre)

\* C10: the first insertion into an Empty slot makes it a ListEntry; no slot
\* goes from Empty to TreeEntry, and none from TreeEntry to ListEntry.
C10_SlotLifecycle ==
    last.op = "insert" =>
        /\ ProbedSlot(last.pre, last.key).kind = "Empty" =>
            ProbedSlot(last.mid, last.key).kind = "ListEntry"
        /\ \A i \in 1..Capacity(last.pre) :
            /\ (last.pre.table[i].kind = "Empty" => last.mid.table[i].kind # "TreeEntry")
            /\ (last.pre.table[i].kind = "TreeEntry" => last.mid.table[i].kind # "ListEntry")

\* ------------------------------------------------- the shape of a tree
RECURSIVE Height(_)
Height(link) ==
    IF link = None THEN 0
    ELSE LET l == Height(link[1].left)
             r == Height(link[1].right)
         IN 1 + (IF l >= r THEN l ELSE r)

\* at every node below link the heights of the two subtrees differ by <= 1
RECURSIVE Balanced(_)
Balanced(link) ==
    \/ link = None
    \/ /\ Height(link[1].left) - Height(link[1].right) \in {-1, 0, 1}
       /\ Balanced(link[1].left)
       /\ Balanced(link[1].right)

\* the hashes of the nodes below link
RECURSIVE TreeHashes(_)
TreeHashes(link) ==
    IF link = None THEN {}
    ELSE {link[1].hash} \cup TreeHashes(link[1].left) \cup TreeHashes(link[1].right)

\* at every node below link: smaller hashes to the left, the others right
RECURSIVE Ordered(_)
Ordered(link) ==
    \/ link = None
    \/ /\ \A h \in TreeHashes(link[1].left) : h < link[1].hash
       /\ \A h \in TreeHashes(link[1].right) : h >= link[1].hash
       /\ Ordered(link[1].left)
       /\ Ordered(link[1].right)

\* two listings hold the same items the same number of times
SameItems(a, b) ==
    /\ Len(a) = Len(b)
    /\ \A i \in 1..Len(a) : Occurrences(a, a[i]) = Occurrences(b, a[i])

\* no key is listed twice
DistinctKeys(pairs) ==
    \A i, j \in 1..Len(pairs) : pairs[i][1] = pairs[j][1] => i = j

\* C13: for every node of the tree the heights of its left and right
\* subtrees differ by at most 1, after any insertions and removals.
C13_TreeBalanced ==
    Balanced(tree.root)

\* C14: for every node, every hash in its left subtree is strictly less
\* than the node's hash and every hash in its right subtree is greater or
\* equal.
C14_TreeOrdered ==
    Ordered(tree.root)

\* the root has a left child and a right child of the root's own hash
C14_Witness ==
    /\ tree.root # None
    /\ tree.root[1].left # None
    /\ tree.root[1].right # None
    /\ tree.root[1].right[1].hash = tree.root[1].hash

\* C15: get_key_value(hash, key) returns the value of the most recent insert
\* of the key, None for a key never inserted, and the tree holds no key twice.
C15_TreeLookupAgrees ==
    /\ \A k \in BucketKeys :
        AvlTree_get_key_value(tree, hasher[k], k) =
            IF tree_recent[k] = None THEN None ELSE Some(<<k, tree_recent[k][1]>>)
    /\ DistinctKeys(TreePairs(tree.root))

\* the value of a key was replaced while another key of the same hash is in
\* the tree
C15_Witness ==
    /\ bucket_last.op = "insert"
    /\ bucket_last.ret # None
    /\ bucket_last.ret[1] # bucket_last.value
    /\ \E j \in BucketKeys :
        /\ j # bucket_last.key
        /\ hasher[j] = hasher[bucket_last.key]
        /\ tree_recent[j] # None

\* C16: the consuming iterator yields every entry of the tree exactly once.
C16_IntoIterYieldsAll ==
    bucket_last.op = "into_iter" =>
        SameItems(bucket_last.items, TreePairs(bucket_last.pre.root))

\* a chain of three nodes, each the left child of the one above, was iterated
C16_Witness ==
    /\ bucket_last.op = "into_iter"
    /\ Len(bucket_last.items) = 3
    /\ bucket_last.pre.root[1].right = None
    /\ bucket_last.pre.root[1].left # None
    /\ bucket_last.pre.root[1].left[1].left # None

\* the pairs of the chain without the first pair of the key
WithoutKey(pairs, key) ==
    LET at == {i \in 1..Len(pairs) : pairs[i][1] = key}
        first == CHOOSE i \in at : \A j \in at : i <= j
    IN SubSeq(pairs, 1, first - 1) \o SubSeq(pairs, first + 1, Len(pairs))

\* C17: remove_entry(key) on a list holding the key returns its (key, value)
\* and removes that one node, the others keeping their order; on a list not
\* holding the key it returns None and leaves the list unchanged.
C17_ListRemoveEntry ==
    (bucket_last.op = "remove_entry") =>
        LET before == ChainPairs(bucket_last.pre.head)
            found == LinkedList_get_key_value(bucket_last.pre, bucket_last.key)
        IN IF found # None
           THEN /\ bucket_last.ret = found
                /\ ChainPairs(list.head) = WithoutKey(before, bucket_last.key)
           ELSE /\ bucket_last.ret = None
                /\ list = bucket_last.pre

\* the middle node of a chain of three was removed
C17_Witness ==
    /\ bucket_last.op = "remove_entry"
    /\ Len(ChainPairs(bucket_last.pre.head)) = 3
    /\ ChainPairs(bucket_last.pre.head)[2][1] = bucket_last.key
    /\ Len(ChainPairs(list.head)) = 2

\* the pairs held by the slot i of the table, slots numbered from 1
SlotPairs(self, i) == EntryPairs(self.table[i])

\* C11: a slot holding more than 8 entries is a TreeEntry, no ListEntry slot
\* holds more than 8, and get returns the stored value of every key of such
\* a slot, the value just inserted for the key of the last insert.
C11_LargeSlotIsTree ==
    /\ \A i \in 1..Capacity(map) :
        /\ map.table[i].kind = "ListEntry" => Len(SlotPairs(map, i)) <= 8
        /\ Len(SlotPairs(map, i)) > 8 =>
            /\ map.table[i].kind = "TreeEntry"
            /\ \A j \in 1..Len(SlotPairs(map, i)) :
                HashMap_get(map, SlotPairs(map, i)[j][1]) = Some(SlotPairs(map, i)[j][2])
    /\ last.op = "insert" => HashMap_get(map, last.key) = Some(last.value)

\* the ninth key of a slot was inserted
C11_Witness ==
    /\ last.op = "insert"
    /\ \E i \in 1..Capacity(map) :
        /\ Len(SlotPairs(map, i)) > 8
        /\ map.table[i].kind = "TreeEntry"

C18_InsertDoublesAtMostOnce ==
    last.op = "insert" =>
        /\ Capacity(map) \in {Capacity(last.pre), 2 * Capacity(last.pre)}
        /\ map.len = last.mid.len
        /\ map.len = last.pre.len + (IF last.ret = None THEN 1 ELSE 0)

\* an insert resized into a table that is again at its load threshold
C18_Witness ==
    /\ last.op = "insert"
    /\ last.resized
    /\ needs_resize(map)
    /\ Capacity(map) = 2 * Capacity(last.pre)

\* C19: every entry stored in slot i has a key with hash & (capacity - 1) =
\* i, so the lookup of every stored key finds it.
C19_Placement ==
    \A i \in 1..Capacity(map) :
        \A j \in 1..Len(SlotPairs(map, i)) :
            LET key == SlotPairs(map, i)[j][1]
            IN /\ BitAnd(map.hash_builder[key], Capacity(map) - 1) = i - 1
               /\ HashMap_get(map, key) = Some(SlotPairs(map, i)[j][2])

\* a resize moved a key to another slot
C19_Witness ==
    /\ last.op = "insert"
    /\ last.resized
    /\ \E k \in Keys :
        /\ HashMap_get(map, k) # None
        /\ hash_index(map, HashMap_hash(map, k)) # hash_index(last.mid, HashMap_hash(map, k))

\* C20: no key is stored more than once in the table.
C20_KeyUnique ==
    DistinctKeys(StoredPairs(map))

\* a key already stored was inserted again, after a remove was called, and
\* the insert resized
C20_Witness ==
    /\ ~insert_only
    /\ last.op = "insert"
    /\ last.ret # None
    /\ last.resized

\* C21: once a public insert has returned, len < 0.75 * capacity, whatever
\* the initial capacity was, and this stays true after later removes.
C21_LoadFactorBound ==
    inserted # {} =>
        LOAD_FACTOR_DEN * HashMap_len(map) < LOAD_FACTOR_NUM * Capacity(map)

\* a remove was called on a table that started at capacity 1 and holds one
\* entry at capacity 2 after its first insert
C21_Witness ==
    /\ last.op \in {"remove", "remove_entry"}
    /\ inserted # {}
    /\ Capacity(map) = 2
    /\ HashMap_len(map) = 1

====
